---- MODULE Spec2Model ----
(***************************************************************************)
(* Model of gibsn/space_visualiser: the recursive walk getDirSize and its  *)
(* caller visualise (src/main.go; src/unnamed/part_000 is the same walk    *)
(* without the ignore-regexp, i.e. the case ignoreRegexp = "").            *)
(*                                                                         *)
(* The file system is an input chosen in Init.  One action models one      *)
(* iteration of the loop of getDirSize (lines 95-154), the call into a     *)
(* subdirectory, or the return of a call; the stack of frames holds the    *)
(* locals of the active calls.                                             *)
(***************************************************************************)
EXTENDS Integers, Sequences, FiniteSets, TLC

\* ------------------------------------------------------------------ bounds
\* Most entries (files, directories, others) below the root directory.
MaxNodes == 3
\* Largest size of a regular file, in bytes.
MaxSize == 1

\* ------------------------------------------------------------- the inputs
\* Names of the entries of one directory, in the order os.ReadDir returns
\* them (sorted by file name).
NameSeq == <<"a", "b", "c", "d", "e", "f">>

\* The path given with -d.
RootPath == <<"r">>

\* Values of visualiser.sizeThreshold.  The field is an int64: part_000's
\* newVisualiser takes any int64, and main.go stores the low 64 bits of
\* the parsed number, which is negative for a threshold of 2^63 bytes or more.
Thresholds == {-1, 0, 1}

\* Values of the -i flag: "" leaves ignoreRegexp nil; any other value is a
\* regular expression made of one literal name.
IgnorePatterns == {"", "a", "b"}

FileSizes == 0..MaxSize

\* A directory entry together with what the file system holds behind it:
\*   kind    "file" (Type().IsRegular()), "dir" (Type().IsDir()), "other"
\*   size    the size lstat reports for a regular file
\*   err     file: entry.Info() fails;  dir: os.ReadDir of it fails
\*   entries dir: its listing
RegularFile(s) ==
    [kind |-> "file", name |-> "", size |-> s, err |-> FALSE, entries |-> <<>>]

VanishedFile ==
    [kind |-> "file", name |-> "", size |-> 0, err |-> TRUE, entries |-> <<>>]

OtherEntry ==
    [kind |-> "other", name |-> "", size |-> 0, err |-> FALSE, entries |-> <<>>]

Directory(e, es) ==
    [kind |-> "dir", name |-> "", size |-> 0, err |-> e, entries |-> es]

Leaves == {RegularFile(s) : s \in FileSizes} \cup {VanishedFile, OtherEntry}

\* The entries of a listing carry the names of NameSeq, in order.
Named(f) == [i \in 1..Len(f) |-> [f[i] EXCEPT !.name = NameSeq[i]]]

RECURSIVE ForestsOf(_), TreesOf(_)
\* The trees of exactly k entries.
TreesOf(k) ==
    (IF k = 1 THEN Leaves ELSE {})
        \cup {Directory(e, Named(c)) : e \in BOOLEAN, c \in ForestsOf(k - 1)}

\* The sequences of trees of exactly n entries in all.
ForestsOf(n) ==
    IF n = 0 THEN {<<>>}
    ELSE UNION {{<<t>> \o f : t \in TreesOf(k), f \in ForestsOf(n - k)} : k \in 1..n}

\* The root directories: a readable directory over at most MaxNodes entries, or
\* an unreadable one (the program sees none of its content) over at most one.
RootDirs ==
    {[kind |-> "dir", name |-> "r", size |-> 0, err |-> FALSE, entries |-> Named(c)] :
        c \in UNION {ForestsOf(n) : n \in 0..MaxNodes}}
    \cup
    {[kind |-> "dir", name |-> "r", size |-> 0, err |-> TRUE, entries |-> Named(c)] :
        c \in UNION {ForestsOf(n) : n \in 0..1}}

\* ------------------------------------------------------------------ state
VARIABLES
    fs,             \* the directory tree under the root path
    sizeThreshold,  \* visualiser.sizeThreshold
    ignoreRegexp,   \* visualiser.ignoreRegexp ("" is nil)
    pc,             \* "start", "walk", "done", or "panic" (the process crashed)
    stack,          \* the frames of the active getDirSize calls, outermost first
    out,            \* standard output: the lines printed so far
    logged,         \* the diagnostic stream (log.Printf)
    rets,           \* what each finished getDirSize call returned
    visited         \* the paths the loop of getDirSize has taken up

vars == <<fs, sizeThreshold, ignoreRegexp, pc, stack, out, logged, rets, visited>>

\* ---------------------------------------------------------------- helpers
\* filepath.Join(dir, entry.Name())
fullPath(dir, entry) == Append(dir, entry.name)

\* regexp.MatchString for a pattern of one literal name: the name occurs in the path.
MatchString(re, path) == \E i \in 1..Len(path) : path[i] = re

\* A slip: the test applied to the directory being listed, not to the joined path.
shouldSkipParentDir(dir) ==
    ignoreRegexp # "" /\ MatchString(ignoreRegexp, SubSeq(dir, 1, Len(dir) - 1))

\* lines 63-65
shouldSkipDir(dir) == ignoreRegexp # "" /\ MatchString(ignoreRegexp, dir)

IsRegular(entry) == entry.kind = "file"

IsDir(entry) == entry.kind = "dir"

\* One line of standard output.  A data line holds the path and the number
\* handed to humanize.BigBytes; a blank line (fmt.Println()) records which
\* statement emitted it and for which entry.
Line(path, size, why) == [t |-> "line", path |-> path, size |-> size, why |-> why]

Blank(path, why) == [t |-> "blank", path |-> path, size |-> 0, why |-> why]

Diag(level, what, path) == [level |-> level, what |-> what, path |-> path]

\* lines 85-86
ReadDirFailureLog(dir) ==
    <<Diag("error", "could not read contents of directory", dir),
      Diag("warning", "will skip directory", dir)>>

\* lines 113-115
IgnoredLog(path) == <<Diag("warning", "ignoring directory", path)>>

\* A slip: a failed listing reported with a size of its own.
ReadDirFailureSized == [size |-> 1, count |-> 0]

\* line 88: what getDirSize returns when the listing fails
ReadDirFailureResult == [size |-> 0, count |-> 0]

\* A slip: >= for >.
ReachesThreshold(entrySize) == entrySize >= sizeThreshold

\* line 135 (and line 74)
ExceedsThreshold(entrySize) == entrySize > sizeThreshold

\* A slip: the test for a regular file left out.
NeedsLeadingNewLineAnyKind(entry, filesPrintedInThisDir) == filesPrintedInThisDir = 0

\* line 136
NeedsLeadingNewLine(entry, filesPrintedInThisDir) ==
    IsRegular(entry) /\ filesPrintedInThisDir = 0

\* lines 130-132
ClosingFlag(shouldPrintAClosingNewLine, filesPrintedInThisEntry) ==
    shouldPrintAClosingNewLine \/ filesPrintedInThisEntry > 0

\* lines 148-150
NextFilesPrinted(entry, filesPrintedInThisDir) ==
    IF IsRegular(entry) THEN filesPrintedInThisDir + 1 ELSE filesPrintedInThisDir

\* A slip: = for +=.
NextDirSizeAssigned(dirSize, entrySize) == entrySize

\* A slip: the addition moved inside the threshold check.
NextDirSizeIfPrinted(dirSize, entrySize) ==
    IF entrySize > sizeThreshold THEN dirSize + entrySize ELSE dirSize

\* line 153
NextDirSize(dirSize, entrySize) == dirSize + entrySize

\* A slip: the new lines put in front of what was printed.
EmitInFront(printed, lines) == lines \o printed

\* Standard output is written in program order.
Emit(printed, lines) == printed \o lines

\* lines 135-147: what one iteration prints
EntryOutput(f, entry, entrySize, closing) ==
    IF ExceedsThreshold(entrySize)
    THEN (IF NeedsLeadingNewLine(entry, f.filesPrintedInThisDir)
          THEN <<Blank(fullPath(f.dir, entry), "lead")>> ELSE <<>>)
         \o <<Line(fullPath(f.dir, entry), entrySize, "entry")>>
         \o (IF closing THEN <<Blank(fullPath(f.dir, entry), "close")>> ELSE <<>>)
    ELSE <<>>

\* lines 135-153: the locals after one iteration that reached the threshold check
AfterEntry(f, entry, entrySize, closing) ==
    [f EXCEPT !.i = @ + 1,
              !.dirSize = NextDirSize(@, entrySize),
              !.filesPrintedInThisDir =
                  IF ExceedsThreshold(entrySize) THEN NextFilesPrinted(entry, @) ELSE @,
              !.shouldPrintAClosingNewLine = closing]

\* a `continue` before the threshold check
AfterContinue(f) == [f EXCEPT !.i = @ + 1]

\* lines 91-93: the locals of a call whose listing succeeded
NewFrame(dir, dirEntries) ==
    [dir |-> dir, dirEntries |-> dirEntries, i |-> 1, dirSize |-> 0,
     filesPrintedInThisDir |-> 0, shouldPrintAClosingNewLine |-> FALSE]

\* lines 74-77
VisualiseOutput(dir, dirSize) ==
    IF ExceedsThreshold(dirSize)
    THEN <<Line(dir, dirSize, "root"), Blank(dir, "root")>>
    ELSE <<>>

Returned(dir, r) == [dir |-> dir, size |-> r.size, count |-> r.count]

Top == stack[Len(stack)]

InLoop == pc = "walk" /\ stack # <<>> /\ Top.i <= Len(Top.dirEntries)

Cur == Top.dirEntries[Top.i]

SetTop(f) == [stack EXCEPT ![Len(stack)] = f]

\* ------------------------------------------------------------------- Init
Init ==
    /\ fs \in RootDirs
    /\ sizeThreshold \in Thresholds
    /\ ignoreRegexp \in IgnorePatterns
    /\ pc = "start"
    /\ stack = <<>>
    /\ out = <<>>
    /\ logged = <<>>
    /\ rets = {}
    /\ visited = {}

\* ---------------------------------------------------------------- actions
\* visualise, lines 67-78, when os.ReadDir of the root fails (lines 83-89)
VisualiseUnreadable ==
    /\ pc = "start"
    /\ fs.err
    /\ logged' = logged \o ReadDirFailureLog(RootPath)
    /\ rets' = rets \cup {Returned(RootPath, ReadDirFailureResult)}
    /\ out' = Emit(out, VisualiseOutput(RootPath, ReadDirFailureResult.size))
    /\ pc' = "done"
    /\ UNCHANGED <<fs, sizeThreshold, ignoreRegexp, stack, visited>>

\* visualise calls getDirSize(root) and the listing succeeds (lines 68, 83, 91-93)
VisualiseEnter ==
    /\ pc = "start"
    /\ ~fs.err
    /\ stack' = <<NewFrame(RootPath, fs.entries)>>
    /\ pc' = "walk"
    /\ UNCHANGED <<fs, sizeThreshold, ignoreRegexp, out, logged, rets, visited>>

\* lines 100-109 and 135-153: a regular file whose Info() succeeds
IterFile ==
    /\ InLoop
    /\ IsRegular(Cur)
    /\ ~Cur.err
    /\ out' = Emit(out, EntryOutput(Top, Cur, Cur.size, Top.shouldPrintAClosingNewLine))
    /\ stack' = SetTop(AfterEntry(Top, Cur, Cur.size, Top.shouldPrintAClosingNewLine))
    /\ visited' = visited \cup {fullPath(Top.dir, Cur)}
    /\ UNCHANGED <<fs, sizeThreshold, ignoreRegexp, pc, logged, rets>>

\* lines 101-102: Info() fails, so info is nil, and info.Size() is called
\* before err is looked at: a nil dereference, the process panics.
IterFileInfoFails ==
    /\ InLoop
    /\ IsRegular(Cur)
    /\ Cur.err
    /\ pc' = "panic"
    /\ visited' = visited \cup {fullPath(Top.dir, Cur)}
    /\ UNCHANGED <<fs, sizeThreshold, ignoreRegexp, stack, out, logged, rets>>

\* neither case of the switch (lines 99-133): entrySize stays 0, lines 135-153 run
IterOther ==
    /\ InLoop
    /\ ~IsRegular(Cur)
    /\ ~IsDir(Cur)
    /\ out' = Emit(out, EntryOutput(Top, Cur, 0, Top.shouldPrintAClosingNewLine))
    /\ stack' = SetTop(AfterEntry(Top, Cur, 0, Top.shouldPrintAClosingNewLine))
    /\ visited' = visited \cup {fullPath(Top.dir, Cur)}
    /\ UNCHANGED <<fs, sizeThreshold, ignoreRegexp, pc, logged, rets>>

\* lines 111-118: a directory the ignore-regexp matches
IterDirIgnored ==
    /\ InLoop
    /\ IsDir(Cur)
    /\ shouldSkipDir(fullPath(Top.dir, Cur))
    /\ logged' = logged \o IgnoredLog(fullPath(Top.dir, Cur))
    /\ stack' = SetTop(AfterContinue(Top))
    /\ visited' = visited \cup {fullPath(Top.dir, Cur)}
    /\ UNCHANGED <<fs, sizeThreshold, ignoreRegexp, pc, out, rets>>

\* lines 120-122 with 83-89, then 130-153: the recursive call returns at once
\* because the listing of the subdirectory fails
IterDirUnreadable ==
    /\ InLoop
    /\ IsDir(Cur)
    /\ ~shouldSkipDir(fullPath(Top.dir, Cur))
    /\ Cur.err
    /\ LET r == ReadDirFailureResult
           closing == ClosingFlag(Top.shouldPrintAClosingNewLine, r.count)
       IN  /\ logged' = logged \o ReadDirFailureLog(fullPath(Top.dir, Cur))
           /\ rets' = rets \cup {Returned(fullPath(Top.dir, Cur), r)}
           /\ out' = Emit(out, EntryOutput(Top, Cur, r.size, closing))
           /\ stack' = SetTop(AfterEntry(Top, Cur, r.size, closing))
    /\ visited' = visited \cup {fullPath(Top.dir, Cur)}
    /\ UNCHANGED <<fs, sizeThreshold, ignoreRegexp, pc>>

\* lines 120-122 with 83 and 91-93: the recursive call starts its loop
IterDirEnter ==
    /\ InLoop
    /\ IsDir(Cur)
    /\ ~shouldSkipDir(fullPath(Top.dir, Cur))
    /\ ~Cur.err
    /\ stack' = Append(stack, NewFrame(fullPath(Top.dir, Cur), Cur.entries))
    /\ visited' = visited \cup {fullPath(Top.dir, Cur)}
    /\ UNCHANGED <<fs, sizeThreshold, ignoreRegexp, pc, out, logged, rets>>

\* line 156 in the callee, then lines 122-153 in the caller
ReturnToParent ==
    /\ pc = "walk"
    /\ Len(stack) > 1
    /\ Top.i > Len(Top.dirEntries)
    /\ LET callee == Top
           caller == stack[Len(stack) - 1]
           entry == caller.dirEntries[caller.i]
           r == [size |-> callee.dirSize, count |-> callee.filesPrintedInThisDir]
           closing == ClosingFlag(caller.shouldPrintAClosingNewLine, r.count)
       IN  /\ rets' = rets \cup {Returned(callee.dir, r)}
           /\ out' = Emit(out, EntryOutput(caller, entry, r.size, closing))
           /\ stack' = [SubSeq(stack, 1, Len(stack) - 1) EXCEPT
                            ![Len(stack) - 1] = AfterEntry(caller, entry, r.size, closing)]
    /\ UNCHANGED <<fs, sizeThreshold, ignoreRegexp, pc, logged, visited>>

\* line 156 of the outermost call, then lines 68-78 of visualise
ReturnToVisualise ==
    /\ pc = "walk"
    /\ Len(stack) = 1
    /\ Top.i > Len(Top.dirEntries)
    /\ rets' = rets \cup
           {Returned(Top.dir, [size |-> Top.dirSize, count |-> Top.filesPrintedInThisDir])}
    /\ out' = Emit(out, VisualiseOutput(Top.dir, Top.dirSize))
    /\ stack' = <<>>
    /\ pc' = "done"
    /\ UNCHANGED <<fs, sizeThreshold, ignoreRegexp, logged, visited>>

Next ==
    \/ VisualiseUnreadable
    \/ VisualiseEnter
    \/ IterFile
    \/ IterFileInfoFails
    \/ IterOther
    \/ IterDirIgnored
    \/ IterDirUnreadable
    \/ IterDirEnter
    \/ ReturnToParent
    \/ ReturnToVisualise

Spec == Init /\ [][Next]_vars

\* =====================================================================
\* The file system as the claims speak of it
\* =====================================================================
Range(s) == {s[i] : i \in DOMAIN s}

RECURSIVE Descend(_, _, _)
Descend(node, path, k) ==
    IF k > Len(path) THEN node
    ELSE Descend(CHOOSE e \in Range(node.entries) : e.name = path[k], path, k + 1)

\* The entry of fs a path names (the root for RootPath).
NodeAt(path) == Descend(fs, path, 2)

Parent(path) == SubSeq(path, 1, Len(path) - 1)

IsPrefix(p, q) == Len(p) <= Len(q) /\ SubSeq(q, 1, Len(p)) = p

IsStrictPrefix(p, q) == Len(p) < Len(q) /\ SubSeq(q, 1, Len(p)) = p

\* The exclusion pattern is configured and matches the path.
Matches(path) == ignoreRegexp # "" /\ \E i \in 1..Len(path) : path[i] = ignoreRegexp

\* The sum of the sizes of the regular files below a directory that are
\* reachable without crossing a matched or an unreadable subdirectory.
RECURSIVE SubtreeSize(_, _), ListingSize(_, _, _)
SubtreeSize(node, path) == IF node.err THEN 0 ELSE ListingSize(node, path, 1)

ListingSize(node, path, k) ==
    IF k > Len(node.entries) THEN 0
    ELSE LET e == node.entries[k]
             p == Append(path, e.name)
             own == CASE e.kind = "file" -> IF e.err THEN 0 ELSE e.size
                      [] e.kind = "dir" -> IF Matches(p) THEN 0 ELSE SubtreeSize(e, p)
                      [] OTHER -> 0
         IN  own + ListingSize(node, path, k + 1)

\* The sum of the sizes of all regular files below a directory.
RECURSIVE AllFilesSize(_, _)
AllFilesSize(node, k) ==
    IF k > Len(node.entries) THEN 0
    ELSE LET e == node.entries[k]
         IN  (IF e.kind = "file" THEN e.size ELSE AllFilesSize(e, 1))
                 + AllFilesSize(node, k + 1)

DataLines == {k \in DOMAIN out : out[k].t = "line"}

LinesOf(path) == {k \in DataLines : out[k].path = path}

\* The data lines of the regular files printed directly in a directory.
FileLinesIn(dir) ==
    {k \in DataLines : out[k].why = "entry" /\ Parent(out[k].path) = dir
                          /\ NodeAt(out[k].path).kind = "file"}

RECURSIVE SumSizes(_)
SumSizes(ks) ==
    IF ks = {} THEN 0
    ELSE LET k == CHOOSE x \in ks : TRUE IN out[k].size + SumSizes(ks \ {k})

HasReturned(path) == \E r \in rets : r.dir = path

ReturnOf(path) == CHOOSE r \in rets : r.dir = path

InfoFailureHit == \E p \in visited : NodeAt(p).kind = "file" /\ NodeAt(p).err

\* The directories whose listing the walk asked for and did not get.
UnreadableSeen ==
    {p \in visited \cup (IF pc = "start" THEN {} ELSE {RootPath}) :
        NodeAt(p).kind = "dir" /\ NodeAt(p).err /\ ~(p # RootPath /\ Matches(p))}

\* The matched directories the walk has come across.
IgnoredSeen == {p \in visited : NodeAt(p).kind = "dir" /\ Matches(p)}

\* What the walk resolved as the size of a visited file or directory.
ResolvedSize(p) == IF NodeAt(p).kind = "file" THEN NodeAt(p).size ELSE ReturnOf(p).size

\* The visited files and directories whose size the walk has resolved.
Resolved ==
    {p \in visited \cup {RootPath} :
        \/ NodeAt(p).kind = "file" /\ ~NodeAt(p).err
        \/ NodeAt(p).kind = "dir" /\ HasReturned(p)}

\* =====================================================================
\* Claims
\* =====================================================================

\* C1: the size a getDirSize call returns for a directory, and the size on
\* the directory's printed line, is the exact sum of the sizes of the regular
\* files of its subtree reachable without crossing a matched or an unreadable
\* subdirectory; skipped subdirectories and other entries count 0.
C1_ExactSubtreeSum ==
    /\ \A r \in rets : r.size = SubtreeSize(NodeAt(r.dir), r.dir)
    /\ \A k \in DataLines :
           NodeAt(out[k].path).kind = "dir"
               => out[k].size = SubtreeSize(NodeAt(out[k].path), out[k].path)

\* A finished run whose root total is positive and smaller than the sum of all
\* files of the tree (something was skipped), with the root's line printed.
C1_Witness ==
    /\ pc = "done"
    /\ IgnoredSeen # {}
    /\ ReturnOf(RootPath).size > 0
    /\ ReturnOf(RootPath).size < AllFilesSize(fs, 1)
    /\ LinesOf(RootPath) # {}

\* C2: every printed line shows a size strictly above the threshold, no path is
\* printed twice, and when the run has finished every visited file or directory
\* whose resolved size exceeds the threshold has exactly one line, showing
\* that size, while none at or below the threshold has a line.
C2_PrintedExactlyOnce ==
    /\ \A k \in DataLines :
           /\ out[k].size > sizeThreshold
           /\ Cardinality(LinesOf(out[k].path)) = 1
    /\ \A p \in Resolved :
           /\ \A k \in LinesOf(p) : out[k].size = ResolvedSize(p)
           /\ ResolvedSize(p) <= sizeThreshold => LinesOf(p) = {}
           /\ ResolvedSize(p) > sizeThreshold => Cardinality(LinesOf(p)) = 1

\* A finished run in which a file of exactly the threshold's size was visited
\* and not printed, and a larger file and its directory were printed.
C2_Witness ==
    /\ pc = "done"
    /\ \E p \in Resolved :
           NodeAt(p).kind = "file" /\ NodeAt(p).size = sizeThreshold /\ LinesOf(p) = {}
    /\ \E p \in Resolved :
           /\ NodeAt(p).kind = "file" /\ LinesOf(p) # {}
           /\ Parent(p) # RootPath /\ LinesOf(Parent(p)) # {}
    /\ LinesOf(RootPath) # {}

\* C3: a directory whose joined path the exclusion pattern matches is never
\* traversed (no call returns for it, nothing below it is visited), no data
\* line is printed for it or for anything below it, and it adds 0 to its
\* parent's total: the parent returns the sum of what its other entries resolved to.
C3_IgnoredDirectory ==
    \A p \in IgnoredSeen :
        /\ ~HasReturned(p)
        /\ \A q \in visited : ~IsStrictPrefix(p, q)
        /\ \A f \in Range(stack) : ~IsPrefix(p, f.dir)
        /\ \A k \in DataLines : ~IsPrefix(p, out[k].path)
        /\ HasReturned(Parent(p)) =>
               ReturnOf(Parent(p)).size =
                   LET es == NodeAt(Parent(p)).entries
                       own(e) == LET q == Append(Parent(p), e.name)
                                 IN  IF e.kind = "other" \/ (e.kind = "dir" /\ Matches(q))
                                     THEN 0 ELSE ResolvedSize(q)
                       sum[k \in 0..Len(es)] ==
                           IF k = 0 THEN 0 ELSE own(es[k]) + sum[k - 1]
                   IN  sum[Len(es)]

\* A finished run that came across a matched directory holding a file larger
\* than the threshold, next to a sibling that was counted.
C3_Witness ==
    /\ pc = "done"
    /\ \E p \in IgnoredSeen :
           /\ \E e \in Range(NodeAt(p).entries) :
                  e.kind = "file" /\ ~e.err /\ e.size > sizeThreshold
           /\ ReturnOf(Parent(p)).size > 0

\* C4 as stated: after visualise completes, the sizes on all printed lines
\* (files, subdirectories and the root) add up to at most the root's total.
C4_AllLinesWithinRootTotal ==
    pc = "done" => SumSizes(DataLines) <= ReturnOf(RootPath).size

\* C4 as amended: after visualise completes, the sizes on the printed lines of
\* regular files add up to at most the root's total.
C4_FileLinesWithinRootTotal ==
    pc = "done" =>
        SumSizes({k \in DataLines : NodeAt(out[k].path).kind = "file"})
            <= ReturnOf(RootPath).size

\* A finished run that printed two files, a subdirectory and the root.
C4_Witness ==
    /\ pc = "done"
    /\ Cardinality({k \in DataLines : NodeAt(out[k].path).kind = "file"}) >= 2
    /\ \E k \in DataLines : out[k].why = "entry" /\ NodeAt(out[k].path).kind = "dir"
    /\ LinesOf(RootPath) # {}

\* C5: when entry.Info() fails for a regular file, the failure is logged, the
\* entry is neither counted nor printed, and the walk goes on: the run is not
\* aborted.
C5_InfoFailureAbsorbed ==
    \A p \in visited :
        NodeAt(p).kind = "file" /\ NodeAt(p).err =>
            /\ pc # "panic"
            /\ \E i \in DOMAIN logged : logged[i].path = p /\ logged[i].level = "error"
            /\ LinesOf(p) = {}

\* What the code does when the listing of a directory fails, at the root or
\* below it: the call logs an error and a warning for it and returns (0, 0); a
\* line printed for it shows 0; its parent, once returned, has taken up every
\* entry of its listing, printed the files above the threshold and returns the
\* sum of what the entries resolved to.
ListingFailureHandled ==
    /\ \A p \in UnreadableSeen :
           /\ [dir |-> p, size |-> 0, count |-> 0] \in rets
           /\ \E i \in DOMAIN logged :
                  /\ logged[i] = Diag("error", "could not read contents of directory", p)
                  /\ i < Len(logged)
                  /\ logged[i + 1] = Diag("warning", "will skip directory", p)
           /\ \A k \in LinesOf(p) : out[k].size = 0
           /\ p # RootPath /\ HasReturned(Parent(p)) =>
                  LET es == NodeAt(Parent(p)).entries
                      path(e) == Append(Parent(p), e.name)
                      own(e) == IF e.kind = "other" \/ (e.kind = "dir" /\ Matches(path(e)))
                                THEN 0 ELSE ResolvedSize(path(e))
                      sum[k \in 0..Len(es)] == IF k = 0 THEN 0 ELSE own(es[k]) + sum[k - 1]
                  IN  /\ \A e \in Range(es) : path(e) \in visited
                      /\ \A e \in Range(es) :
                             e.kind = "file" /\ e.size > sizeThreshold
                                 => LinesOf(path(e)) # {}
                      /\ ReturnOf(Parent(p)).size = sum[Len(es)]

\* The only crash of a run is the nil dereference after a failed Info().
CrashOnlyOnInfoFailure == pc = "panic" => InfoFailureHit

\* C6: when the listing of a directory fails, the call logs the failure and
\* returns (0, 0), the directory adds 0 to its parent's total, the remaining
\* siblings are processed as usual, and visualise terminates normally: once a
\* listing has failed the run never crashes, and it goes on until it is done.
C6_ListingFailureTotal ==
    /\ ListingFailureHandled
    /\ UnreadableSeen # {} => pc # "panic" /\ (pc = "done" \/ ENABLED Next)

\* A finished run that met an unreadable subdirectory holding a file and then
\* printed a sibling that comes after it.
ListingFailureSeen ==
    /\ pc = "done"
    /\ \E p \in UnreadableSeen :
           /\ p # RootPath
           /\ NodeAt(p).entries # <<>>
           /\ \E q \in Resolved :
                  /\ Parent(q) = Parent(p) /\ NodeAt(q).kind = "file"
                  /\ \E kp \in DOMAIN logged : logged[kp].path = p
                  /\ LinesOf(q) # {}
           /\ ReturnOf(Parent(p)).size > 0

\* C7: whatever the threshold, an entry that is neither a regular file nor a
\* directory adds nothing to its directory's total and has no line printed.
C7_OtherEntryNeverPrinted ==
    /\ \A k \in DataLines : NodeAt(out[k].path).kind # "other"
    /\ \A r \in rets : r.size = SubtreeSize(NodeAt(r.dir), r.dir)

\* With a threshold of 0 or more no entry of another kind is printed.
OtherEntryNeverPrintedFromZero ==
    sizeThreshold >= 0 => \A k \in DataLines : NodeAt(out[k].path).kind # "other"

\* C8: within one level, a closing blank line follows a printed entry line
\* exactly when the entry is a directory whose own call returned a count of
\* printed files above 0.
C8_ClosingBlankOnlyAfterDirectory ==
    \A k \in DataLines :
        out[k].why = "entry" =>
            LET p == out[k].path
                closed == /\ k < Len(out)
                          /\ out[k + 1] = Blank(p, "close")
            IN  closed <=> (NodeAt(p).kind = "dir" /\ ReturnOf(p).count > 0)

\* C9: the leading blank line (line 138) is emitted only immediately before
\* the line of the first regular file printed at a level, and before every
\* such line; never before a later file of the level, nor before a directory
\* or other entry; and the count a call returns is the number of regular
\* files printed directly at its level.
C9_LeadingBlankAndCount ==
    /\ \A k \in DOMAIN out :
           out[k].t = "blank" /\ out[k].why = "lead" =>
               /\ k < Len(out)
               /\ out[k + 1] = Line(out[k].path, out[k + 1].size, "entry")
               /\ NodeAt(out[k].path).kind = "file"
               /\ \A j \in FileLinesIn(Parent(out[k].path)) : j >= k + 1
    /\ \A k \in DataLines :
           out[k].why = "entry" =>
               LET first == /\ NodeAt(out[k].path).kind = "file"
                            /\ \A j \in FileLinesIn(Parent(out[k].path)) : j >= k
                   led == k > 1 /\ out[k - 1] = Blank(out[k].path, "lead")
               IN  first <=> led
    /\ \A r \in rets : r.count = Cardinality(FileLinesIn(r.dir))

\* A finished run that printed two regular files and a subdirectory at one level.
C9_Witness ==
    /\ pc = "done"
    /\ \E r \in rets :
           /\ r.count >= 2
           /\ \E k \in DataLines :
                  /\ out[k].why = "entry" /\ Parent(out[k].path) = r.dir
                  /\ NodeAt(out[k].path).kind = "dir"
                  /\ \E j \in FileLinesIn(r.dir) : j < k

\* C10: a directory's line comes after every line of its descendants, its
\* call has returned by then, and the root's line, when printed, is the last
\* data line.
C10_PostOrder ==
    /\ \A k \in DataLines : \A j \in DataLines :
           IsStrictPrefix(out[k].path, out[j].path) => j < k
    /\ \A k \in DataLines :
           NodeAt(out[k].path).kind = "dir" => HasReturned(out[k].path)
    /\ \A k \in LinesOf(RootPath) : \A j \in DataLines : j <= k

\* A finished run that printed a file two levels down, its directory and the root.
C10_Witness ==
    /\ pc = "done"
    /\ \E k \in DataLines :
           /\ Len(out[k].path) = 3
           /\ LinesOf(Parent(out[k].path)) # {}
    /\ LinesOf(RootPath) # {}

====
